---- MODULE Spec2Model ----
(***************************************************************************)
(* Model of the IPC provider backend of src/modules/ipc/ipcProviderBackend2.js *)
(* (the closure-based backend, lines 306-924): one GethConnection per view  *)
(* in global.sockets, the request path sendRequest -> filterRequestResponse *)
(* -> checkRequests -> socket write, the socket's data/error/timeout/end    *)
(* handlers, timeout() and destroy().                                       *)
(*                                                                         *)
(* Environment (not in src/): the views stay open while the model runs      *)
(* (sender.isDestroyed() is false, sender.getId() does not throw); a view   *)
(* whose sendSync has no return value yet is blocked and sends nothing; the *)
(* daemon answers every payload it was written, once, and may push          *)
(* notifications; JSON-RPC ids are truthy integers; the dechunker hands the *)
(* data handler one parsed message at a time, or an error.                  *)
(***************************************************************************)
EXTENDS Integers, Sequences, FiniteSets, TLC

\* number of write / writeSync requests the views issue in one run
MaxRequests == 2
\* number of other events in one run: socket failures (error, timeout, end, framing
\* error), daemon pushes, ipcProvider-create and ipcProvider-destroy messages
MaxEvents == 1

Views == {"main", "dapp", "guest", "popup"}
Ids == {1, 2}
Accounts == {"0xAAA", "0xBBB", "0xCCC"}
GasValues == {21000}

\* Windows.getById(id).type of the external window registry
windowType(v) == IF v = "main" THEN "main" ELSE IF v = "popup" THEN "popup" ELSE "webview"

\* Tabs.findOne({webviewId}): does the external tab store hold permissions.accounts for v;
\* "guest" is a webview without a recorded permission
hasPermission(v) == v = "dapp"

\* Tabs.findOne({webviewId}).permissions.accounts of the external tab store
tabAccounts(v) == IF v = "dapp" THEN {"0xAAA"} ELSE {}

\* a method name "<ns>_<name>", split at its first underscore
Method(ns, name) == [ns |-> ns, name |-> name]
ethGetBalance == Method("eth", "getBalance")
ethAccounts == Method("eth", "accounts")
ethSendTransaction == Method("eth", "sendTransaction")
ethCompileSolidity == Method("eth", "compileSolidity")
adminAddPeer == Method("admin", "addPeer")
web3Sha3 == Method("web3", "sha3")
ethNonExistingMethod == Method("eth", "nonExistingMethod")
\* the placeholder '__method__' of the error templates, and String(undefined)
methodPlaceholder == Method("", "__method__")
methodUndefined == Method("", "undefined")

SingleMethods == {ethGetBalance, ethAccounts, ethSendTransaction, ethCompileSolidity, adminAddPeer,
                  web3Sha3}
BatchMethods == {ethGetBalance, ethSendTransaction, adminAddPeer}

\* one JSON-RPC request object; tmpl marks the shared nonExistingRequest object,
\* whose id is read through the template when the element is used
Req(id, method) == [id |-> id, method |-> method, gas |-> 0, tmpl |-> FALSE]
\* a payload is a single object or an array (batch) of objects
Single(e) == [batch |-> FALSE, elems |-> <<e>>]
Batch(es) == [batch |-> TRUE, elems |-> es]
NoPayload == [batch |-> FALSE, elems |-> <<>>]

\* the methods sent under both ids, so that two requests can reuse an id
ReusedMethods == {ethGetBalance, ethAccounts, ethSendTransaction}
SinglePayloads ==
    {Single(Req(i, m)) : i \in Ids, m \in ReusedMethods}
    \cup {Single(Req(1, m)) : m \in SingleMethods \ ReusedMethods}
BatchPayloads ==
    {Batch(<<Req(1, m1), Req(2, m2)>>) : m1 \in BatchMethods, m2 \in BatchMethods \ {ethSendTransaction}}
    \cup {Batch(<<Req(1, ethGetBalance), Req(2, ethSendTransaction)>>)}
\* what the main window sends: enough to take each branch of the privileged path
MainPayloads ==
    {Single(Req(1, adminAddPeer)), Single(Req(1, ethAccounts)),
     Batch(<<Req(1, adminAddPeer), Req(2, ethGetBalance)>>),
     Batch(<<Req(1, ethGetBalance), Req(2, ethSendTransaction)>>)}
\* a batch that asks for the accounts in second place, and what the guest webview sends
AccountsBatch == Batch(<<Req(1, ethGetBalance), Req(2, ethAccounts)>>)
GuestPayloads == {Single(Req(1, ethAccounts))}
\* what a popup window sends
PopupPayloads == {Single(Req(1, ethAccounts))}
\* write or writeSync: the guest webview and the popup send asynchronously only
SyncModes(v) == IF v \in {"guest", "popup"} THEN {FALSE} ELSE BOOLEAN

\* the payloads that are also sent through writeSync
SyncPayloads ==
    {Single(Req(1, ethGetBalance)), Single(Req(2, ethGetBalance)), Single(Req(1, ethAccounts)),
     Single(Req(1, ethSendTransaction)), Single(Req(1, adminAddPeer)),
     Single(Req(1, ethCompileSolidity)),
     Batch(<<Req(1, ethGetBalance), Req(2, ethSendTransaction)>>)}

PayloadsOf(v) ==
    IF v = "main" THEN MainPayloads
    ELSE IF v = "guest" THEN GuestPayloads
    ELSE IF v = "popup" THEN PopupPayloads
    ELSE SinglePayloads \cup BatchPayloads \cup {AccountsBatch}

\* one JSON-RPC response object: kind says what it carries
\*   "result" an opaque result, "accounts" a result that is an account list,
\*   "error" an error object of the daemon, "compiled" / "compileError" of solc,
\*   "METHOD_DENIED", "METHOD_TIMEOUT", "TX_DENIED", "BATCH_TX_DENIED" the templates,
\*   "bool" the boolean connect() puts in a return slot, "notification" a daemon push
Resp(id, kind, msg, accts) == [id |-> id, kind |-> kind, msg |-> msg, accts |-> accts]

RidSet == 1..MaxRequests
NoEvents == [i \in Ids |-> 0]
\* the registry slot of a view with no connection. constructed, destroyed and obj are
\* history: how many GethConnection objects were constructed for the view, how many of
\* them ran destroy(), and which one the registry holds (0 for none)
NoConn == [exists |-> FALSE, writable |-> FALSE, syncEvents |-> NoEvents, asyncEvents |-> NoEvents,
           constructed |-> 0, destroyed |-> 0, obj |-> 0]

VARIABLES
    sockets,      \* global.sockets: view -> GethConnection (exists, ipcSocket.writable, syncEvents, asyncEvents)
    events,       \* the ipc events of the requests issued so far, by request number
    got,          \* request number -> what was put in its return slot / pushed to its sender, in order
    pushed,       \* view -> the messages pushed to the connection's sender on the notification path
    wire,         \* view -> the requests written to the current socket that the daemon has not answered
    templates,    \* the mutable fields of the shared errorMethod, errorTimeout, nonExistingRequest objects
    signals,      \* view -> the other messages sent to it: setWritable, error, timeout, end
    createRet,    \* view -> the return slot of its latest ipcProvider-create event: "none",
                  \* "true" (set at once), "pending" (left to the transport's listeners and timer)
    occurred,     \* how many of the MaxEvents other events have happened
    connections,  \* IpcProviderBackend._connections: the window ids that have an {owner, socket} entry
    isConnected,  \* window id -> socket.isConnected of the window's socket in Sockets
    ownerSent,    \* window id -> the messages sent to the window by the IpcProviderBackend class
    nodeState,    \* the state of the latest ethereumNode 'state' event
    reconnect,    \* window id -> socket.connect() in the latest 'state' handler: "none", "ok", "failed"
    logged,       \* the messages the 'state' handler has passed to log.error
    unhandled,    \* the window ids whose promise chain was rejected with no handler attached
    nodeSteps,    \* how many of the MaxNodeSteps steps of the class have happened
    framerBuffer, \* what the one dechunker holds across calls: the chunks not yet yielded
    midMessage,   \* view -> the daemon's current message on its socket is half delivered
    framed,       \* view -> the values the dechunker handed to that connection's data callback
    framingErrors,\* view -> how many framing errors that connection's data callback was handed
    arrived       \* how many of the MaxChunks chunks have arrived

mainVars == <<sockets, events, got, pushed, wire, templates, signals, createRet, occurred>>
nodeVars == <<connections, isConnected, ownerSent, nodeState, reconnect, logged, unhandled, nodeSteps>>

framerVars == <<framerBuffer, midMessage, framed, framingErrors, arrived>>

vars == <<sockets, events, got, pushed, wire, templates, signals, createRet, occurred,
          connections, isConnected, ownerSent, nodeState, reconnect, logged, unhandled, nodeSteps,
          framerBuffer, midMessage, framed, framingErrors, arrived>>

----
\* helpers

Min(S) == CHOOSE x \in S : \A y \in S : x <= y

\* the message of a template that quotes no method (errorUnlock, errorSendTxBatch)
noToken == Method("", "")

\* method names that hold a character outside [a-z_] (a digit)
DigitMethods == {web3Sha3, Method("web3", "clientVersion")}

\* makeError's /'[a-z_]*'/i: does it match the quoted token tok of a message
tokenMatches(tok) == tok \notin DigitMethods

\* makeError's message.replace: the quoted token after one call for method m
replaceToken(tok, m) == IF tokenMatches(tok) THEN m ELSE tok

RECURSIVE foldToken(_, _)
foldToken(tok, ms) ==
    IF ms = <<>> THEN tok ELSE foldToken(replaceToken(tok, Head(ms)), Tail(ms))

\* the id a request element reads: the shared nonExistingRequest's when it is that object
elemId(e, neId) == IF e.tmpl THEN neId ELSE e.id

\* JSON.stringify of a request payload: every element with the id it has now
stringifyPayload(p, neId) ==
    [p EXCEPT !.elems = [i \in 1..Len(p.elems) |->
        [p.elems[i] EXCEPT !.id = elemId(p.elems[i], neId), !.tmpl = FALSE]]]

\* the quoted message token of template kind after makeError ran on the methods ms
errorToken(kind, tok, ms) ==
    IF kind \in {"METHOD_DENIED", "METHOD_TIMEOUT"} THEN foldToken(tok, ms) ELSE noToken

\* returnError(payload, error), stringified: makeError writes each element's method and id
\* into the one shared error object and returns that object, so every element of the
\* array is the object as the last call left it
returnError(p, kind, tok, neId) ==
    LET n == Len(p.elems)
        ms == [i \in 1..n |-> p.elems[i].method]
        obj == Resp(elemId(p.elems[n], neId), kind, errorToken(kind, tok, ms), {})
    IN  [batch |-> p.batch, elems |-> [i \in 1..n |-> obj]]

\* the /^eth_|^shh_|^net_|^web3_|^db_/ test of testPayload
allowedMethod(m) == m.ns \in {"eth", "shh", "net", "web3", "db"}

\* an admin test that knows the main window only
isPrivileged_mainOnly(v) == windowType(v) = "main"

\* filterRequestResponse's admin test: the main window, or any window that is no webview
isPrivileged(v) == windowType(v) = "main" \/ windowType(v) # "webview"

\* the shared nonExistingRequest object as an element of a filtered batch
placeholderElem == [id |-> 0, method |-> ethNonExistingMethod, gas |-> 0, tmpl |-> TRUE]

\* testPayload on a request element of a batch (error = nonExistingRequest)
testPayloadRequest(e) == IF allowedMethod(e.method) THEN e ELSE placeholderElem

\* a filter that takes every view for the main window
filterRequest_allAdmin(v, p) == p

\* filterRequestResponse(jsonPayload) as sendRequest calls it (no event): the filtered
\* payload, NoPayload for false
filterRequest(v, p) ==
    IF isPrivileged(v) THEN p
    ELSE IF p.batch
         THEN [p EXCEPT !.elems = [i \in 1..Len(p.elems) |-> testPayloadRequest(p.elems[i])]]
         ELSE IF allowedMethod(p.elems[1].method) THEN p ELSE NoPayload

\* nonExistingRequest.id after filterRequest: makeError wrote the id of each denied element
filterRequestId(v, p, neId) ==
    LET denied == {i \in 1..Len(p.elems) : ~allowedMethod(p.elems[i].method)}
    IN  IF isPrivileged(v) \/ ~p.batch \/ denied = {} THEN neId
        ELSE p.elems[CHOOSE i \in denied : \A j \in denied : j <= i].id

isEmpty(p) == p.elems = <<>>

\* a batch test that looks at the first element only
hasSendTransaction_firstOnly(p) == p.elems[1].method = ethSendTransaction

\* checkRequests' _.find(filteredPayload, {method: 'eth_sendTransaction'}) on a batch
hasSendTransaction(p) == \E i \in 1..Len(p.elems) : p.elems[i].method = ethSendTransaction

\* a gate that asks for no confirmation
needsConfirmation_never(p) == FALSE

\* checkRequests' filteredPayload.method === 'eth_sendTransaction' on a single request
needsConfirmation(p) == ~p.batch /\ p.elems[1].method = ethSendTransaction

----
\* state

\* the ipc event of a request: req is the parsed jsonPayload, payload the filtered payload
\* (event.payload once registered), written what JSON.stringify put on the socket;
\* modal, listening, called are checkRequests' popup, its ipc.once listener and its latch
NewEvent(v, s, p) ==
    [view |-> v, sync |-> s, req |-> p, payload |-> NoPayload, eventId |-> 0,
     written |-> NoPayload, registered |-> FALSE, thrown |-> FALSE, connecting |-> FALSE,
     modal |-> "none", listening |-> FALSE, called |-> FALSE, decided |-> FALSE,
     stale |-> FALSE, callbacks |-> <<>>]

Delivery(s, body) == [chan |-> IF s THEN "return" ELSE "data", batch |-> body.batch, elems |-> body.elems]

Init ==
    /\ sockets = [v \in Views |-> NoConn]
    /\ events = <<>>
    /\ got = [r \in RidSet |-> <<>>]
    /\ pushed = [v \in Views |-> {}]
    /\ wire = [v \in Views |-> {}]
    /\ templates = [errorMethod |-> methodPlaceholder, errorTimeout |-> methodPlaceholder,
                    nonExistingRequest |-> 0]
    /\ signals = [v \in Views |-> {}]
    /\ createRet = [v \in Views |-> "none"]
    /\ occurred = 0
    /\ connections = {}
    /\ isConnected = [v \in Views |-> FALSE]
    /\ ownerSent = [v \in Views |-> {}]
    /\ nodeState = "none"
    /\ reconnect = [v \in Views |-> "none"]
    /\ logged = {}
    /\ unhandled = {}
    /\ nodeSteps = 0
    /\ framerBuffer = <<>>
    /\ midMessage = [v \in Views |-> FALSE]
    /\ framed = [v \in Views |-> <<>>]
    /\ framingErrors = [v \in Views |-> 0]
    /\ arrived = 0

Issued == 1..Len(events)

\* a renderer inside sendSync waits for event.returnValue and sends nothing meanwhile
blocked(v) == \E r \in Issued : events[r].view = v /\ events[r].sync /\ got[r] = <<>>

\* a request path that constructs a GethConnection whether or not the view has one
connect_alwaysNew(conn, w) ==
    [conn EXCEPT !.exists = TRUE, !.writable = w, !.syncEvents = NoEvents, !.asyncEvents = NoEvents,
                 !.constructed = @ + 1, !.obj = conn.constructed + 1]

\* the head of sendRequest and of ipcProvider-create: a new GethConnection (whose
\* constructor connects) when the registry has none for the view, else
\* GethConnection.prototype.connect, which calls ipcSocket.connect() on a socket that is
\* not writable; whether the transport reports writable right after the call is the
\* transport's choice w
connect(conn, w) ==
    IF ~conn.exists
    THEN [conn EXCEPT !.exists = TRUE, !.writable = w,
                      !.constructed = @ + 1, !.obj = conn.constructed + 1]
    ELSE IF ~conn.writable THEN [conn EXCEPT !.writable = w]
    ELSE conn

\* ipcSocket.on('connect'): sender.send('ipcProvider-setWritable', true) when a socket
\* that was not writable connects
connectSignals(v, w) ==
    IF (~sockets[v].exists \/ ~sockets[v].writable) /\ w
    THEN [signals EXCEPT ![v] = @ \cup {"setWritable(true)"}]
    ELSE signals

\* the success callback of checkRequests in sendRequest: event.payload = result,
\* socket.syncEvents[id] / asyncEvents[id] = event under the id of the (first) element
register(conn, rid, s, p, neId) ==
    LET id == elemId(p.elems[1], neId)
    IN  IF s THEN [conn EXCEPT !.syncEvents[id] = rid]
        ELSE [conn EXCEPT !.asyncEvents[id] = rid]

\* a compile branch that answers with the timeout error
compileResponse_asTimeout(p, ok) ==
    Single(Resp(p.elems[1].id, "METHOD_TIMEOUT", ethCompileSolidity, {}))

\* solc.compile's outcome as the response checkRequests builds for eth_compileSolidity
compileResponse(p, ok) ==
    Single(Resp(p.elems[1].id, IF ok THEN "compiled" ELSE "compileError", noToken, {}))

\* ipc.on('ipcProvider-write' / 'ipcProvider-writeSync'): sendRequest(event, payload, sync)
SendRequest(v, p, s) ==
    /\ Len(events) < MaxRequests
    /\ ~blocked(v)
    /\ \E w \in BOOLEAN, ok \in BOOLEAN :
        LET rid == Len(events) + 1
            old == sockets[v]
            connects == ~old.exists \/ ~old.writable
            conn == connect(old, w)
            ev0 == [NewEvent(v, s, p) EXCEPT !.connecting = connects /\ s]
            filtered == filterRequest(v, p)
            neId == filterRequestId(v, p, templates.nonExistingRequest)
            tmpl1 == [templates EXCEPT !.nonExistingRequest = neId]
            compiles == ~filtered.batch /\ ~isEmpty(filtered)
                        /\ filtered.elems[1].method = ethCompileSolidity
        IN  /\ connects \/ w
            /\ compiles \/ ok
            /\ signals' = connectSignals(v, w)
            /\ IF ~conn.writable
               THEN \* returnError(jsonPayload, errorTimeout) with jsonPayload still undefined:
                    \* makeError reads payload.method and throws a TypeError
                    /\ sockets' = [sockets EXCEPT ![v] = conn]
                    /\ events' = Append(events, [ev0 EXCEPT !.thrown = TRUE])
                    /\ UNCHANGED <<got, wire, templates>>
               ELSE IF isEmpty(filtered)
               THEN \* not permitted: returnError(jsonPayload, errorMethod)
                    LET body == returnError(p, "METHOD_DENIED", templates.errorMethod, neId)
                    IN  /\ sockets' = [sockets EXCEPT ![v] = conn]
                        /\ events' = Append(events, ev0)
                        /\ got' = [got EXCEPT ![rid] = Append(@, Delivery(s, body))]
                        /\ templates' = [tmpl1 EXCEPT !.errorMethod = body.elems[1].msg]
                        /\ UNCHANGED wire
               ELSE IF filtered.batch /\ hasSendTransaction(filtered)
               THEN \* checkRequests: callback(errorSendTxBatch)
                    LET body == returnError(p, "BATCH_TX_DENIED", noToken, neId)
                    IN  /\ sockets' = [sockets EXCEPT ![v] = conn]
                        /\ events' = Append(events, ev0)
                        /\ got' = [got EXCEPT ![rid] = Append(@, Delivery(s, body))]
                        /\ templates' = tmpl1
                        /\ UNCHANGED wire
               ELSE IF needsConfirmation(filtered)
               THEN \* checkRequests: open the confirmation popup and wait
                    /\ sockets' = [sockets EXCEPT ![v] = conn]
                    /\ events' = Append(events, [ev0 EXCEPT !.payload = filtered,
                                    !.modal = "open", !.listening = TRUE])
                    /\ templates' = tmpl1
                    /\ UNCHANGED <<got, wire>>
               ELSE IF compiles
               THEN \* checkRequests: compile locally, answer, callback(true)
                    /\ sockets' = [sockets EXCEPT ![v] = conn]
                    /\ events' = Append(events, ev0)
                    /\ got' = [got EXCEPT ![rid] = Append(@, Delivery(s, compileResponse(filtered, ok)))]
                    /\ templates' = tmpl1
                    /\ UNCHANGED wire
               ELSE \* callback(null, filteredPayload): register the event and write
                    /\ sockets' = [sockets EXCEPT ![v] = register(conn, rid, s, filtered, neId)]
                    /\ events' = Append(events, [ev0 EXCEPT !.payload = filtered,
                                    !.eventId = elemId(filtered.elems[1], neId),
                                    !.registered = TRUE,
                                    !.written = stringifyPayload(filtered, neId)])
                    /\ wire' = [wire EXCEPT ![v] = @ \cup {rid}]
                    /\ templates' = tmpl1
                    /\ UNCHANGED got
    /\ UNCHANGED <<pushed, occurred>>
    /\ UNCHANGED createRet
    /\ UNCHANGED nodeVars
    /\ UNCHANGED framerVars

----
\* responses

\* socket.syncEvents[id] || socket.asyncEvents[id], 0 for undefined
eventOf(conn, id) ==
    IF id \notin Ids THEN 0
    ELSE IF conn.syncEvents[id] # 0 THEN conn.syncEvents[id]
    ELSE conn.asyncEvents[id]

\* a lookup that reads the first element of an array only
getResponseEvent_firstOnly(conn, msg) == eventOf(conn, msg.elems[1].id)

\* GethConnection.prototype.getResponseEvent: for an array the first element whose id is
\* pending, then the event pending under that element's id
getResponseEvent(conn, msg) ==
    IF msg.batch
    THEN LET hits == {i \in 1..Len(msg.elems) : eventOf(conn, msg.elems[i].id) # 0}
         IN  IF hits = {} THEN 0 ELSE eventOf(conn, msg.elems[Min(hits)].id)
    ELSE eventOf(conn, msg.elems[1].id)

\* the method filterRequestResponse looks up for a response element: in an array response
\* _.find(event.payload, re.id === load.id).method, for a single response
\* event.payload.method; noToken stands for false / undefined
requestMethod(msg, load, ep, neId) ==
    IF msg.batch
    THEN IF ~ep.batch THEN noToken
         ELSE LET hits == {i \in 1..Len(ep.elems) : elemId(ep.elems[i], neId) = load.id}
              IN  IF hits = {} THEN noToken ELSE ep.elems[Min(hits)].method
    ELSE IF ep.batch THEN noToken ELSE ep.elems[1].method

\* a testPayload that leaves the account list as the daemon sent it
testPayloadResponse_noNarrow(v, load, m, tok) ==
    IF load.kind \notin {"result", "accounts"} THEN load
    ELSE IF m = noToken
         THEN Resp(load.id, "METHOD_DENIED", replaceToken(tok, methodUndefined), {})
    ELSE load

\* GethConnection.prototype.testPayload on a response element, for the looked-up method m
\* and the current token tok of errorMethod
testPayloadResponse(v, load, m, tok) ==
    IF load.kind \notin {"result", "accounts"} THEN load
    ELSE IF m = noToken
         THEN Resp(load.id, "METHOD_DENIED", replaceToken(tok, methodUndefined), {})
    ELSE IF m = ethAccounts
         THEN Resp(load.id, "accounts", load.msg,
                   IF load.kind = "accounts" /\ hasPermission(v)
                   THEN load.accts \cap tabAccounts(v) ELSE {})
    ELSE load

\* errorMethod's token after testPayload ran on the elements 1..k of msg
RECURSIVE filterToken(_, _, _, _, _, _)
filterToken(v, msg, ep, neId, tok, k) ==
    IF k = 0 THEN tok
    ELSE LET before == filterToken(v, msg, ep, neId, tok, k - 1)
             out == testPayloadResponse(v, msg.elems[k], requestMethod(msg, msg.elems[k], ep, neId), before)
         IN  IF out.kind = "METHOD_DENIED" /\ msg.elems[k].kind # "METHOD_DENIED" THEN out.msg ELSE before

\* GethConnection.prototype.filterRequestResponse(result, event) in the data handler
filterResponse(v, msg, ep, neId, tok) ==
    IF isPrivileged(v) THEN msg
    ELSE [msg EXCEPT !.elems = [k \in 1..Len(msg.elems) |->
            testPayloadResponse(v, msg.elems[k], requestMethod(msg, msg.elems[k], ep, neId),
                                filterToken(v, msg, ep, neId, tok, k - 1))]]

\* what the daemon answers to one request object it was written
replyElem(e) ==
    IF e.method = ethAccounts THEN Resp(e.id, "accounts", noToken, Accounts)
    ELSE IF e.method = ethNonExistingMethod THEN Resp(e.id, "error", noToken, {})
    ELSE Resp(e.id, "result", noToken, {})

\* the daemon's answer to a written payload: an array for an array
reply(p) == [batch |-> p.batch, elems |-> [i \in 1..Len(p.elems) |-> replyElem(p.elems[i])]]

\* the daemon may answer the elements of an array in any order: rev turns the array round
Reverse(q) == [i \in 1..Len(q) |-> q[Len(q) + 1 - i]]
replyIn(p, rev) == IF rev THEN [reply(p) EXCEPT !.elems = Reverse(@)] ELSE reply(p)
\* the answers the daemon may give to a written payload
Replies(p) == {replyIn(p, rev) : rev \in IF p.batch THEN BOOLEAN ELSE {FALSE}}

idOrder == <<1, 2>>

\* a timeout() that walks asyncEvents only
pendingOrder_asyncOnly(conn) ==
    SelectSeq([i \in 1..Len(idOrder) |-> conn.asyncEvents[idOrder[i]]], LAMBDA r : r # 0)

\* the events timeout() walks: asyncEvents then syncEvents, each in key order
pendingOrder(conn) ==
    SelectSeq([i \in 1..Len(idOrder) |-> conn.asyncEvents[idOrder[i]]], LAMBDA r : r # 0)
    \o SelectSeq([i \in 1..Len(idOrder) |-> conn.syncEvents[idOrder[i]]], LAMBDA r : r # 0)

payloadMethods(p) == [i \in 1..Len(p.elems) |-> p.elems[i].method]

\* errorTimeout's token after timeout() answered the first k events of rs
RECURSIVE timeoutToken(_, _, _)
timeoutToken(rs, tok, k) ==
    IF k = 0 THEN tok
    ELSE foldToken(timeoutToken(rs, tok, k - 1), payloadMethods(events[rs[k]].payload))

\* GethConnection.prototype.timeout: every pending event gets returnError(event.payload,
\* errorTimeout) and is deleted from its map
timeoutGot(conn) ==
    LET rs == pendingOrder(conn)
        pos(r) == CHOOSE k \in 1..Len(rs) : rs[k] = r
    IN  [r \in RidSet |->
            IF \E k \in 1..Len(rs) : rs[k] = r
            THEN Append(got[r], Delivery(events[r].sync,
                    returnError(events[r].payload, "METHOD_TIMEOUT",
                                timeoutToken(rs, templates.errorTimeout, pos(r) - 1),
                                templates.nonExistingRequest)))
            ELSE got[r]]

timeoutTemplates(conn) ==
    LET rs == pendingOrder(conn)
    IN  [templates EXCEPT !.errorTimeout = timeoutToken(rs, @, Len(rs))]

\* a timeout() that deletes from asyncEvents only
timeoutConn_keepSync(conn) == [conn EXCEPT !.asyncEvents = NoEvents]

\* timeout(): delete _this.asyncEvents[key], delete _this.syncEvents[key] for every key
timeoutConn(conn) == [conn EXCEPT !.syncEvents = NoEvents, !.asyncEvents = NoEvents]

\* timeout() first: sender.send('ipcProvider-setWritable', ipcSocket.writable)
SetWritable(b) == IF b THEN "setWritable(true)" ELSE "setWritable(false)"
timeoutSignals(v, before) == [signals EXCEPT ![v] = @ \cup before \cup {SetWritable(sockets[v].writable)}]

\* the open confirmation popups of view v hold the connection object in their callback
staleGates(v) ==
    [r \in 1..Len(events) |->
        IF events[r].view = v /\ events[r].modal # "none" /\ events[r].callbacks = <<>>
        THEN [events[r] EXCEPT !.stale = TRUE] ELSE events[r]]

\* a destroy() that leaves the entry in the registry
destroyedConn_kept(conn) == timeoutConn(conn)

\* destroy(): delete global.sockets['id_' + this.id]
destroyedConn(conn) ==
    [NoConn EXCEPT !.constructed = conn.constructed, !.destroyed = conn.destroyed + 1]

\* GethConnection.prototype.destroy: timeout(), ipcSocket.destroy(), delete global.sockets[id]
destroy(v, before) ==
    /\ signals' = timeoutSignals(v, before)
    /\ got' = timeoutGot(sockets[v])
    /\ templates' = timeoutTemplates(sockets[v])
    /\ sockets' = [sockets EXCEPT ![v] = destroyedConn(@)]
    /\ wire' = [wire EXCEPT ![v] = {}]
    /\ events' = staleGates(v)
    /\ UNCHANGED pushed

\* a notification branch that answers an unmatched message with the method error
notificationPush_asError(v, msg, r) ==
    [pushed EXCEPT ![v] = @ \cup {[src |-> r, batch |-> msg.batch,
        elems |-> [i \in 1..Len(msg.elems) |->
                     Resp(msg.elems[i].id, "METHOD_DENIED", methodUndefined, {})]]}]

\* the notification branch of the data handler:
\* _this.sender.send('ipcProvider-data', JSON.stringify(result))
notificationPush(v, msg, r) ==
    [pushed EXCEPT ![v] = @ \cup {[src |-> r, batch |-> msg.batch, elems |-> msg.elems]}]

\* ipcSocket.on('data'): one message of the dechunker; r is the written request it answers
\* (0 for a message the daemon sends on its own)
onData(v, msg, r) ==
    LET conn == sockets[v]
        e == getResponseEvent(conn, msg)
    IN  IF e = 0
        THEN \* notification: sender.send('ipcProvider-data', JSON.stringify(result))
             /\ pushed' = notificationPush(v, msg, r)
             /\ UNCHANGED <<sockets, events, got, templates>>
        ELSE LET ep == events[e].payload
                 neId == templates.nonExistingRequest
                 body == filterResponse(v, msg, ep, neId, templates.errorMethod)
             IN  /\ got' = [got EXCEPT ![e] = Append(@, Delivery(events[e].sync, body))]
                 /\ sockets' = [sockets EXCEPT ![v] =
                        IF events[e].sync
                        THEN [conn EXCEPT !.syncEvents[events[e].eventId] = 0]
                        ELSE [conn EXCEPT !.asyncEvents[events[e].eventId] = 0]]
                 /\ templates' = [templates EXCEPT !.errorMethod =
                        IF isPrivileged(v) THEN @
                        ELSE filterToken(v, msg, ep, neId, @, Len(msg.elems))]
                 /\ UNCHANGED <<events, pushed>>

\* the daemon answers a request it was written
DaemonReply(v, r) ==
    /\ sockets[v].exists
    /\ r \in wire[v]
    /\ wire' = [wire EXCEPT ![v] = @ \ {r}]
    /\ \E rev \in BOOLEAN :
          /\ rev => events[r].written.batch
          /\ onData(v, replyIn(events[r].written, rev), r)
    /\ UNCHANGED <<signals, occurred>>
    /\ UNCHANGED createRet
    /\ UNCHANGED nodeVars
    /\ UNCHANGED framerVars

\* the daemon pushes a message no request asked for
DaemonNotify(v) ==
    /\ occurred < MaxEvents
    /\ occurred' = occurred + 1
    /\ sockets[v].exists /\ sockets[v].writable
    /\ onData(v, Single(Resp(0, "notification", noToken, {})), 0)
    /\ UNCHANGED <<wire, signals>>
    /\ UNCHANGED createRet
    /\ UNCHANGED nodeVars
    /\ UNCHANGED framerVars

\* the dechunker reports an error: the data handler calls timeout()
FramingError(v) ==
    /\ occurred < MaxEvents
    /\ occurred' = occurred + 1
    /\ sockets[v].exists
    /\ signals' = timeoutSignals(v, {})
    /\ got' = timeoutGot(sockets[v])
    /\ templates' = timeoutTemplates(sockets[v])
    /\ sockets' = [sockets EXCEPT ![v] = timeoutConn(@)]
    /\ UNCHANGED <<events, pushed, wire>>
    /\ UNCHANGED createRet
    /\ UNCHANGED nodeVars
    /\ UNCHANGED framerVars

\* ipcSocket.on('error'): tells the sender; the transport has closed the socket
SocketError(v) ==
    /\ occurred < MaxEvents
    /\ occurred' = occurred + 1
    /\ sockets[v].exists
    /\ sockets' = [sockets EXCEPT ![v].writable = FALSE]
    /\ wire' = [wire EXCEPT ![v] = {}]
    /\ signals' = [signals EXCEPT ![v] = @ \cup {"error"}]
    /\ UNCHANGED <<events, got, pushed, templates>>
    /\ UNCHANGED createRet
    /\ UNCHANGED nodeVars
    /\ UNCHANGED framerVars

\* ipcSocket.on('timeout'): tells the sender, then destroy()
SocketTimeout(v) ==
    /\ occurred < MaxEvents
    /\ occurred' = occurred + 1
    /\ sockets[v].exists
    /\ destroy(v, {"timeout"})
    /\ UNCHANGED createRet
    /\ UNCHANGED nodeVars
    /\ UNCHANGED framerVars

\* ipcSocket.on('end'): tells the sender, then destroy()
SocketEnd(v) ==
    /\ occurred < MaxEvents
    /\ occurred' = occurred + 1
    /\ sockets[v].exists
    /\ destroy(v, {"end"})
    /\ UNCHANGED createRet
    /\ UNCHANGED nodeVars
    /\ UNCHANGED framerVars

\* ipc.on('ipcProvider-destroy'): destroy() on the view's connection; if(!socket) return
Destroy(v) ==
    /\ occurred < MaxEvents
    /\ occurred' = occurred + 1
    /\ ~blocked(v)
    /\ IF sockets[v].exists
       THEN destroy(v, {})
       ELSE UNCHANGED <<sockets, events, got, pushed, wire, templates, signals>>
    /\ UNCHANGED createRet
    /\ UNCHANGED nodeVars
    /\ UNCHANGED framerVars

\* a connect(event) that always waits for the transport
createReturn_pending(conn) == "pending"

\* connect(event) as ipcProvider-create runs it: event.returnValue = true at once on a
\* writable socket, otherwise the 'connect' / 'error' listener or the 500 ms timer fills it
createReturn(conn) == IF conn.exists /\ conn.writable THEN "true" ELSE "pending"

\* ipc.on('ipcProvider-create'): connect() on the view's connection, or a new GethConnection
Create(v) ==
    /\ occurred < MaxEvents
    /\ occurred' = occurred + 1
    /\ ~blocked(v)
    /\ \E w \in BOOLEAN :
        /\ (~sockets[v].exists \/ ~sockets[v].writable) \/ w
        /\ sockets' = [sockets EXCEPT ![v] = connect(@, w)]
        /\ signals' = connectSignals(v, w)
    /\ createRet' = [createRet EXCEPT ![v] = createReturn(sockets[v])]
    /\ UNCHANGED <<events, got, pushed, wire, templates>>
    /\ UNCHANGED nodeVars
    /\ UNCHANGED framerVars

\* connect(event)'s 'connect' / 'error' listener or its 500 ms timer, whichever is first,
\* puts a boolean in the return slot of the event that ran connect()
ConnectReturn(r) ==
    /\ r \in Issued
    /\ events[r].connecting
    /\ events' = [events EXCEPT ![r].connecting = FALSE]
    /\ got' = [got EXCEPT ![r] = Append(@, Delivery(TRUE, Single(Resp(0, "bool", noToken, {}))))]
    /\ UNCHANGED <<sockets, pushed, wire, templates, signals, occurred>>
    /\ UNCHANGED createRet
    /\ UNCHANGED nodeVars
    /\ UNCHANGED framerVars

----
\* the confirmation popup of checkRequests

\* callback(errorUnlock) in sendRequest: the caller gets returnError(jsonPayload, errorUnlock)
denyGot(r) ==
    [got EXCEPT ![r] = Append(@, Delivery(events[r].sync,
        returnError(events[r].req, "TX_DENIED", noToken, templates.nonExistingRequest)))]

\* callback(null, filteredPayload) in sendRequest, run from the popup's listener: the event
\* goes into the pending map of the connection object the request found, and the payload
\* is written to that object's socket
approveSockets(r, p) ==
    LET v == events[r].view
    IN  IF events[r].stale \/ ~sockets[v].exists THEN sockets
        ELSE [sockets EXCEPT ![v] = register(@, r, events[r].sync, p, templates.nonExistingRequest)]

approveWritten(r) ==
    LET v == events[r].view
    IN  ~events[r].stale /\ sockets[v].exists /\ sockets[v].writable

\* an approval that forwards the request with the gas it came with
amendGas_ignored(p, g) == p

\* the approval branch of the popup's listener: filteredPayload.params[0].gas = result
amendGas(p, g) == [p EXCEPT !.elems[1].gas = g]

\* a gate without the latch
latchOpen_always(r) == TRUE

\* the latch of checkRequests: if(!called) before each callback
latchOpen(r) == ~events[r].called

\* ipc.once('backendAction_unlockedAccount'): the popup of request r reports its decision.
\* The message runs, and removes, the once-listener of every open gate; only the listener
\* whose popup sent it acts, and ends with modalWindow.close(), whose 'closed' event
\* comes later. approve: err is empty and result is the gas g.
Decision(r, approve, g) ==
    /\ r \in Issued
    /\ events[r].modal # "none"
    /\ ~events[r].decided
    /\ LET ev == events[r]
           acts == ev.listening
           fires == acts /\ latchOpen(r)
           p == IF acts /\ approve THEN amendGas(ev.payload, g) ELSE ev.payload
           heard == [x \in 1..Len(events) |-> [events[x] EXCEPT !.listening = FALSE]]
       IN  /\ events' = [heard EXCEPT ![r] =
                [@ EXCEPT !.decided = TRUE,
                          !.payload = p,
                          !.called = IF acts THEN TRUE ELSE @,
                          !.callbacks = IF fires THEN Append(@, IF approve THEN "approve" ELSE "deny") ELSE @,
                          !.eventId = IF fires /\ approve THEN p.elems[1].id ELSE @,
                          !.registered = IF fires /\ approve THEN TRUE ELSE @,
                          !.written = IF fires /\ approve /\ approveWritten(r)
                                      THEN stringifyPayload(p, templates.nonExistingRequest) ELSE @]]
           /\ sockets' = IF fires /\ approve THEN approveSockets(r, p) ELSE sockets
           /\ wire' = IF fires /\ approve /\ approveWritten(r)
                      THEN [wire EXCEPT ![ev.view] = @ \cup {r}] ELSE wire
           /\ got' = IF fires /\ ~approve THEN denyGot(r) ELSE got
    /\ UNCHANGED <<pushed, templates, signals, occurred>>
    /\ UNCHANGED createRet
    /\ UNCHANGED nodeVars
    /\ UNCHANGED framerVars

\* modalWindow.on('closed'): the popup of request r was closed
GateClosed(r) ==
    /\ r \in Issued
    /\ events[r].modal = "open"
    /\ events' = [events EXCEPT ![r] =
            [@ EXCEPT !.modal = "closed", !.called = TRUE,
                      !.callbacks = IF latchOpen(r) THEN Append(@, "deny") ELSE @]]
    /\ got' = IF latchOpen(r) THEN denyGot(r) ELSE got
    /\ UNCHANGED <<sockets, pushed, wire, templates, signals, occurred>>
    /\ UNCHANGED createRet
    /\ UNCHANGED nodeVars
    /\ UNCHANGED framerVars

Next ==
    \/ \E v \in Views : \E s \in SyncModes(v) :
          \E p \in IF s THEN PayloadsOf(v) \cap SyncPayloads ELSE PayloadsOf(v) :
             SendRequest(v, p, s)
    \/ \E v \in Views, r \in RidSet : DaemonReply(v, r)
    \/ \E v \in Views : DaemonNotify(v)
    \/ \E v \in Views : FramingError(v)
    \/ \E v \in Views : SocketError(v)
    \/ \E v \in Views : SocketTimeout(v)
    \/ \E v \in Views : SocketEnd(v)
    \/ \E v \in Views : Destroy(v)
    \/ \E v \in Views : Create(v)
    \/ \E r \in RidSet : ConnectReturn(r)
    \/ \E r \in RidSet, approve \in BOOLEAN, g \in GasValues : Decision(r, approve, g)
    \/ \E r \in RidSet : GateClosed(r)

Spec == Init /\ [][Next]_vars

----
\* the IpcProviderBackend class: its registry and the ethereumNode 'state' handler

\* number of steps of the class in one run
MaxNodeSteps == 4

\* ethereumNode.STATES
NodeStates == {"starting", "connected", "stopping", "stopped"}

\* an entry of this._connections, as _createConnection stores it: { owner: wnd, socket: socket }
Item(v) == [owner |-> v, socket |-> v]

\* item.sender.getId() in the log line of both mappers: a property of undefined is read
\* unless the entry has a sender
senderDefined(item) == "sender" \in DOMAIN item

\* the STOPPING mapper on one entry: the log line, then owner.send and socket.disconnect()
stoppingMapper(item) == IF senderDefined(item) THEN "disconnect" ELSE "TypeError"

\* the callback of socket.connect().then in the CONNECTED mapper: the log line, then owner.send
connectedCallback(item) == IF senderDefined(item) THEN "send" ELSE "TypeError"

\* a switch whose other states run the CONNECTED case
switchCase_fallThrough(state) == IF state = "stopping" THEN "stopping" ELSE "connected"

\* switch (state) in _onNodeStateChanged: the case that runs
switchCase(state) == IF state \in {"stopping", "connected"} THEN state ELSE "none"

\* _createConnection: Sockets.get, connect unless connected, then store { owner, socket };
\* ok is whether socket.connect() resolves
CreateConnection(v) ==
    /\ nodeSteps < MaxNodeSteps
    /\ nodeSteps' = nodeSteps + 1
    /\ \E ok \in BOOLEAN :
        /\ isConnected[v] => ok
        /\ IF ok
           THEN /\ connections' = connections \cup {v}
                /\ isConnected' = [isConnected EXCEPT ![v] = TRUE]
           ELSE UNCHANGED <<connections, isConnected>>
    /\ UNCHANGED <<ownerSent, nodeState, reconnect, logged, unhandled>>
    /\ UNCHANGED mainVars
    /\ UNCHANGED framerVars

\* socket.on('error' / 'timeout' / 'end') of a stored connection: socket.destroy(), then
\* the finally callback reads the undeclared Connections and throws before wnd.send
ConnectionSocketEvent(v, ev) ==
    /\ nodeSteps < MaxNodeSteps
    /\ nodeSteps' = nodeSteps + 1
    /\ v \in connections
    /\ isConnected[v]
    /\ isConnected' = [isConnected EXCEPT ![v] = FALSE]
    /\ unhandled' = unhandled \cup {v}
    /\ UNCHANGED <<connections, ownerSent, nodeState, reconnect, logged>>
    /\ UNCHANGED mainVars
    /\ UNCHANGED framerVars

\* _onNodeStateChanged(state). iterates: whether Q.map walks the entries of the plain object
\* this._connections or rejects it as not iterable; oks: the sockets whose connect() resolves
NodeStateChanged(state) ==
    /\ nodeSteps < MaxNodeSteps
    /\ nodeSteps' = nodeSteps + 1
    /\ nodeState' = state
    /\ \E iterates \in BOOLEAN, oks \in SUBSET connections :
        LET case == switchCase(state)
        IN  IF case = "stopping"
            THEN LET done == {v \in connections : iterates /\ stoppingMapper(Item(v)) = "disconnect"}
                 IN  /\ ownerSent' = [v \in Views |-> IF v \in done
                                          THEN ownerSent[v] \cup {SetWritable(FALSE)}
                                          ELSE ownerSent[v]]
                     /\ isConnected' = [v \in Views |-> IF v \in done THEN FALSE ELSE isConnected[v]]
                     /\ logged' = IF ~iterates \/ connections \ done # {}
                                  THEN logged \cup {"Error disconnecting sockets"}
                                  ELSE logged
                     /\ UNCHANGED <<connections, reconnect, unhandled>>
            ELSE IF case = "connected"
            THEN LET called == IF iterates THEN connections ELSE {}
                     good == {v \in called : v \in oks \/ isConnected[v]}
                     told == {v \in good : connectedCallback(Item(v)) = "send"}
                 IN  /\ reconnect' = [v \in Views |-> IF v \in good THEN "ok"
                                          ELSE IF v \in called THEN "failed" ELSE "none"]
                     /\ isConnected' = [v \in Views |-> v \in good \/ isConnected[v]]
                     /\ ownerSent' = [v \in Views |-> IF v \in told
                                          THEN ownerSent[v] \cup {SetWritable(TRUE)}
                                          ELSE ownerSent[v]]
                     /\ unhandled' = unhandled \cup (called \ told)
                     /\ logged' = IF iterates THEN logged
                                  ELSE logged \cup {"Error re-connecting sockets"}
                     /\ UNCHANGED connections
            ELSE UNCHANGED <<connections, isConnected, ownerSent, reconnect, logged, unhandled>>
    /\ UNCHANGED mainVars
    /\ UNCHANGED framerVars

NodeNext ==
    \/ \E v \in Views : CreateConnection(v)
    \/ \E v \in Views, ev \in {"error", "timeout", "end"} : ConnectionSocketEvent(v, ev)
    \/ \E state \in NodeStates : NodeStateChanged(state)

SpecNode == Init /\ [][NodeNext]_vars

----
\* the dechunker and the 'data' handlers that call it

MaxChunks == 4
MaxBuffer == 3

\* a chunk of a daemon message as one 'data' event carries it: the whole message, or its
\* opening part, or its closing part; from is the connection whose socket it arrived on
Parts == {"whole", "head", "tail"}
Chunk(v, part) == [from |-> v, part |-> part]

\* the chunks a socket can deliver next: the rest of a half-delivered message, or the
\* start of the next one
nextParts(mid) == IF mid THEN {"tail"} ELSE {"whole", "head"}

\* how many top-level values of buffer b are still open
RECURSIVE depth(_)
depth(b) ==
    IF b = <<>> THEN 0
    ELSE LET c == b[Len(b)]
             d == depth(SubSeq(b, 1, Len(b) - 1))
         IN  IF c.part = "head" THEN d + 1 ELSE IF c.part = "tail" THEN d - 1 ELSE d

\* dechunker(data, callback): it parses what the module kept from the calls before,
\* whichever connection made them, and then the chunk c. "yielded" with the complete
\* value, "error" when the buffer has outgrown its bound, "kept" while the value is open
dechunker(b, c) ==
    LET data == Append(b, c)
    IN  IF depth(data) = 0 THEN [out |-> "yielded", value |-> data, buffer |-> <<>>]
        ELSE IF Len(data) > MaxBuffer THEN [out |-> "error", value |-> <<>>, buffer |-> <<>>]
        ELSE [out |-> "kept", value |-> <<>>, buffer |-> data]

\* ipcSocket.on('data'): the connection of view v hands the chunk to the dechunker, with a
\* callback that delivers the value or the error through this connection
SocketData(v) ==
    /\ arrived < MaxChunks
    /\ \E part \in nextParts(midMessage[v]) :
          LET res == dechunker(framerBuffer, Chunk(v, part))
          IN  /\ midMessage' = [midMessage EXCEPT ![v] = (part = "head")]
              /\ framerBuffer' = res.buffer
              /\ framed' = IF res.out = "yielded"
                            THEN [framed EXCEPT ![v] = Append(@, res.value)] ELSE framed
              /\ framingErrors' = IF res.out = "error"
                                   THEN [framingErrors EXCEPT ![v] = @ + 1] ELSE framingErrors
    /\ arrived' = arrived + 1
    /\ UNCHANGED mainVars
    /\ UNCHANGED nodeVars

FramerNext == \E v \in Views : SocketData(v)

SpecFramer == Init /\ [][FramerNext]_vars

----
\* what a caller observes

\* the JSON-RPC messages request r's caller was handed, in its return slot or as
\* ipcProvider-data, in order (the booleans of connect() apart)
answersOf(r) == SelectSeq(got[r], LAMBDA d : d.elems[1].kind # "bool")

\* the daemon's answers to request r that reached r's view on the notification path
strays(r) == {m \in pushed[events[r].view] : m.src = r}

\* the requests pending in the maps of view v's connection
pendingOf(v) ==
    {r \in RidSet : \E i \in Ids : sockets[v].syncEvents[i] = r \/ sockets[v].asyncEvents[i] = r}

\* request r waits at the confirmation popup
awaiting(r) == events[r].modal # "none" /\ events[r].callbacks = <<>>

synthesized == {"METHOD_DENIED", "METHOD_TIMEOUT", "TX_DENIED", "BATCH_TX_DENIED"}

----
\* C1: a request that was registered as pending is answered at most once: its view is
\* never handed a second message for it, whether as the answer of the pending call or as
\* a message pushed on the notification path; a genuine response that comes after the
\* synthesized timeout error is not delivered.
C1_DeliveredOnce ==
    \A r \in Issued :
        events[r].registered => Len(answersOf(r)) + Cardinality(strays(r)) <= 1

\* C2: no message handed to an untrusted view, as the answer of a call or on the
\* notification path, holds an eth_accounts result with an account outside the view's
\* allowed set.
C2_AccountsNarrowed ==
    \A v \in Views :
        ~isPrivileged(v) =>
            /\ \A r \in Issued : events[r].view = v =>
                 \A k \in 1..Len(got[r]) : \A i \in 1..Len(got[r][k].elems) :
                    got[r][k].elems[i].kind = "accounts"
                        => got[r][k].elems[i].accts \subseteq tabAccounts(v)
            /\ \A m \in pushed[v] : \A i \in 1..Len(m.elems) :
                    m.elems[i].kind = "accounts" => m.elems[i].accts \subseteq tabAccounts(v)

C4_BatchFiltered ==
    \A r \in Issued :
        LET ev == events[r]
            n == Len(ev.req.elems)
        IN  (~isPrivileged(ev.view) /\ ev.req.batch /\ ~ev.thrown) =>
                /\ ev.written # NoPayload => Len(ev.written.elems) = n
                /\ \A k \in 1..Len(answersOf(r)) : Len(answersOf(r)[k].elems) = n
                /\ \A i \in 1..n :
                     ~allowedMethod(ev.req.elems[i].method) =>
                        /\ ev.written # NoPayload => "method" \notin DOMAIN ev.written.elems[i]
                        /\ \A k \in 1..Len(answersOf(r)) :
                             /\ answersOf(r)[k].elems[i].kind = "METHOD_DENIED"
                             /\ answersOf(r)[k].elems[i].id = ev.req.elems[i].id

\* C5: a single eth_sendTransaction is neither written nor registered, and its caller has
\* no answer, until the popup's approval is reported; when the user denies or the popup is
\* closed it is never written and the caller has exactly the transaction-denied error with
\* the request's id.
C5_GatedUntilApproved ==
    \A r \in Issued :
        LET ev == events[r]
            q == ev.req.elems[1]
        IN  (~ev.req.batch /\ q.method = ethSendTransaction /\ ~ev.thrown) =>
                /\ (ev.registered \/ ev.written # NoPayload \/ r \in pendingOf(ev.view))
                     => ev.callbacks = <<"approve">>
                /\ ev.callbacks = <<>> => answersOf(r) = <<>>
                /\ ev.callbacks = <<"deny">> =>
                     /\ ev.written = NoPayload /\ ~ev.registered
                     /\ Len(answersOf(r)) = 1
                     /\ answersOf(r)[1].elems[1].kind = "TX_DENIED"
                     /\ answersOf(r)[1].elems[1].id = q.id

\* C5 witness: one transaction was approved and written, another was refused by closing
\* its popup
C5_Witness ==
    \E r1 \in Issued, r2 \in Issued :
        /\ events[r1].req.elems[1].method = ethSendTransaction /\ ~events[r1].req.batch
        /\ events[r1].callbacks = <<"approve">> /\ events[r1].written # NoPayload
        /\ events[r2].req.elems[1].method = ethSendTransaction /\ ~events[r2].req.batch
        /\ events[r2].callbacks = <<"deny">> /\ ~events[r2].decided
        /\ Len(answersOf(r2)) = 1

\* C6: the callback of one confirmation gate fires at most once, whatever the order in
\* which the popup's decision message and its 'closed' event arrive, and once it has
\* fired its outcome stands: the latch is set only with the callback made, the first
\* signal of a gate that is the only one open fires it, and every later signal leaves
\* the outcome as it is.
C6_GateFiresOnce ==
    [][\A r \in 1..Len(events') :
          /\ Len(events'[r].callbacks) <= 1
          /\ events'[r].called => Len(events'[r].callbacks) = 1
          /\ (/\ \A x \in 1..Len(events') : x # r => events'[x].modal = "none"
              /\ events'[r].decided \/ events'[r].modal = "closed")
                => Len(events'[r].callbacks) = 1
          /\ (r \in Issued /\ events[r].callbacks # <<>>)
                => events'[r].callbacks = events[r].callbacks]_vars

\* C6 witness: a gate has handled both signals, the approval first and the 'closed'
\* event after it, and the approval stands
C6_Witness ==
    \E r \in Issued :
        /\ events[r].decided /\ events[r].modal = "closed"
        /\ events[r].callbacks = <<"approve">>

\* C7: a batch that holds an eth_sendTransaction element and reaches the gate is rejected
\* whole: nothing of it is written, no pending call is registered, no popup is opened, and
\* the caller has exactly one answer, an array of batch-denied errors as long as the batch.
C7_BatchTxRejected ==
    \A r \in Issued :
        LET ev == events[r]
            n == Len(ev.req.elems)
        IN  (/\ ev.req.batch
             /\ \E i \in 1..n : ev.req.elems[i].method = ethSendTransaction
             /\ ~ev.thrown) =>
                /\ ev.written = NoPayload
                /\ ~ev.registered
                /\ r \notin pendingOf(ev.view)
                /\ ev.modal = "none"
                /\ Len(answersOf(r)) = 1
                /\ answersOf(r)[1].batch
                /\ Len(answersOf(r)[1].elems) = n
                /\ \A i \in 1..n : answersOf(r)[1].elems[i].kind = "BATCH_TX_DENIED"

\* C7 witness: both views have had a batch with eth_sendTransaction in second place refused
C7_Witness ==
    \E r1 \in Issued, r2 \in Issued :
        /\ events[r1].view = "main" /\ events[r2].view = "dapp"
        /\ \A r \in {r1, r2} :
              /\ events[r].req.batch
              /\ events[r].req.elems[2].method = ethSendTransaction
              /\ events[r].req.elems[1].method = ethGetBalance
              /\ Len(answersOf(r)) = 1

\* C8: the step in which a connection's socket reports 'timeout' hands every call pending
\* on it, in the sync map and in the async map, one more answer, a timeout error in the
\* shape of the call's payload on the call's own channel, and leaves both maps empty.
C8_TimeoutResolvesAll ==
    [][\A v \in Views :
          ("timeout" \notin signals[v] /\ "timeout" \in signals'[v]) =>
              /\ sockets'[v].syncEvents = NoEvents
              /\ sockets'[v].asyncEvents = NoEvents
              /\ \A r \in pendingOf(v) :
                    /\ Len(got'[r]) = Len(got[r]) + 1
                    /\ SubSeq(got'[r], 1, Len(got[r])) = got[r]
                    /\ LET d == got'[r][Len(got'[r])]
                       IN  /\ d.chan = IF events[r].sync THEN "return" ELSE "data"
                           /\ d.batch = events[r].payload.batch
                           /\ Len(d.elems) = Len(events[r].payload.elems)
                           /\ \A i \in 1..Len(d.elems) : d.elems[i].kind = "METHOD_TIMEOUT"]_vars

\* C8 witness: the socket timed out while one view had a call pending in each map, and
\* both were answered with the timeout error
C8_Witness ==
    \E v \in Views, r1 \in Issued, r2 \in Issued :
        /\ "timeout" \in signals[v]
        /\ events[r1].view = v /\ events[r2].view = v
        /\ events[r1].sync /\ ~events[r2].sync
        /\ \A r \in {r1, r2} :
              /\ events[r].registered
              /\ got[r] # <<>>
              /\ got[r][Len(got[r])].elems[1].kind = "METHOD_TIMEOUT"

\* C9: every synthesized error handed to a caller is addressed to the request it answers:
\* it has as many elements as the request, and element i carries the id of request
\* element i.
C9_ErrorsAddressed ==
    \A r \in Issued : \A k \in 1..Len(got[r]) :
        LET d == got[r][k]
        IN  (\A i \in 1..Len(d.elems) : d.elems[i].kind \in synthesized) =>
                /\ d.batch = events[r].req.batch
                /\ Len(d.elems) = Len(events[r].req.elems)
                /\ \A i \in 1..Len(d.elems) : d.elems[i].id = events[r].req.elems[i].id

\* C10: every request whose handling has ended, one that neither waits at the
\* confirmation popup nor is pending in a map of its connection, has been answered with
\* exactly one result or error.
C10_ResolvedOnce ==
    \A r \in Issued :
        (~awaiting(r) /\ r \notin pendingOf(events[r].view)) => Len(answersOf(r)) = 1

\* C11: when the daemon's answer reaches a pending call of an untrusted view, every
\* element whose request, found by id in the call's payload (the payload itself for a
\* single answer), has method eth_accounts is handed on as the daemon's account list cut
\* down to the view's allowed accounts, and as the empty list when the view has no
\* recorded permission.
C11_AccountsIntersected ==
    [][\A v \in Views, r \in RidSet :
          (/\ ~isPrivileged(v)
           /\ occurred' = occurred
           /\ sockets[v].exists
           /\ r \in wire[v] /\ r \notin wire'[v]) =>
              (getResponseEvent(sockets[v], reply(events[r].written)) # 0 =>
                 \E msg \in Replies(events[r].written) :
                    LET e == getResponseEvent(sockets[v], msg)
                    IN  /\ Len(got'[e]) = Len(got[e]) + 1
                        /\ LET d == got'[e][Len(got'[e])]
                           IN  /\ Len(d.elems) = Len(msg.elems)
                               /\ \A i \in 1..Len(msg.elems) : d.elems[i].id = msg.elems[i].id
                               /\ \A i \in 1..Len(msg.elems) :
                                     (/\ requestMethod(msg, msg.elems[i], events[e].payload,
                                                       templates.nonExistingRequest) = ethAccounts
                                      /\ msg.elems[i].kind \in {"result", "accounts"}) =>
                                         /\ d.elems[i].kind = "accounts"
                                         /\ d.elems[i].accts =
                                              IF hasPermission(v)
                                              THEN msg.elems[i].accts \cap tabAccounts(v)
                                              ELSE {})]_vars

\* C11 witness: the webview with permission {0xAAA} has the answer to a batch whose second
\* element asked for the accounts, cut down to {0xAAA}, and the webview without a
\* recorded permission has its eth_accounts answered with the empty list
C11_Witness ==
    \E r1 \in Issued, r2 \in Issued :
        /\ events[r1].view = "dapp" /\ events[r1].req = AccountsBatch
        /\ Len(answersOf(r1)) = 1 /\ answersOf(r1)[1].batch
        /\ answersOf(r1)[1].elems[2].kind = "accounts"
        /\ answersOf(r1)[1].elems[2].accts = {"0xAAA"}
        /\ events[r2].view = "guest" /\ events[r2].req = Single(Req(1, ethAccounts))
        /\ Len(answersOf(r2)) = 1
        /\ answersOf(r2)[1].elems[1].kind = "accounts"
        /\ answersOf(r2)[1].elems[1].accts = {}

\* C12: a message of the daemon that matches no pending call of the connection is pushed
\* to the connection's view as it came, neither dropped nor turned into an error, and
\* leaves the registry, the pending maps and every caller's answers as they were; every
\* message a view holds from the notification path is the daemon's message verbatim.
C12_NotificationVerbatim ==
    [][\A v \in Views :
          /\ \A r \in RidSet :
                (/\ occurred' = occurred
                 /\ sockets[v].exists
                 /\ r \in wire[v] /\ r \notin wire'[v]
                 /\ getResponseEvent(sockets[v], reply(events[r].written)) = 0) =>
                    /\ \E msg \in Replies(events[r].written) :
                          pushed'[v] = pushed[v] \cup
                              {[src |-> r, batch |-> msg.batch, elems |-> msg.elems]}
                    /\ sockets' = sockets
                    /\ got' = got
          /\ \A m \in pushed'[v] :
                IF m.src = 0
                THEN ~m.batch /\ m.elems = <<Resp(0, "notification", noToken, {})>>
                ELSE [batch |-> m.batch, elems |-> m.elems] \in Replies(events'[m.src].written)]_vars

\* C12 witness: a view holds a notification the daemon sent on its own and a response
\* that matched no pending call
C12_Witness ==
    \E v \in Views :
        /\ \E m \in pushed[v] : m.src = 0
        /\ \E m \in pushed[v] : m.src # 0

\* C13: for a view that is the main window or a popup the filter changes nothing: no
\* request of it is answered with the method error, what is written for it is the
\* request as it came (single or batch, admin_addPeer included), and the daemon's answer
\* to a pending call of it is handed on as it came, the account list of eth_accounts in
\* full.
C13_PrivilegedUnchanged ==
    [][\A v \in Views :
          windowType(v) # "webview" =>
              /\ \A r \in 1..Len(events') :
                    (events'[r].view = v /\ ~events'[r].thrown) =>
                        LET ev == events'[r]
                            gated == IF ev.req.batch
                                     THEN \E i \in 1..Len(ev.req.elems) :
                                            ev.req.elems[i].method = ethSendTransaction
                                     ELSE ev.req.elems[1].method
                                            \in {ethSendTransaction, ethCompileSolidity}
                        IN  /\ \A k \in 1..Len(got'[r]) : \A i \in 1..Len(got'[r][k].elems) :
                                  got'[r][k].elems[i].kind # "METHOD_DENIED"
                            /\ ~gated => (ev.written = ev.req /\ ev.payload = ev.req)
              /\ \A r \in RidSet :
                    (/\ occurred' = occurred
                     /\ sockets[v].exists
                     /\ r \in wire[v] /\ r \notin wire'[v]
                     /\ getResponseEvent(sockets[v], reply(events[r].written)) # 0) =>
                        \E msg \in Replies(events[r].written) :
                            LET e == getResponseEvent(sockets[v], msg)
                            IN  got'[e] = Append(got[e], Delivery(events[e].sync, msg))]_vars

\* C13 witness: the main window has the daemon's answer to a batch that holds
\* admin_addPeer, and a popup has the full account list
C13_Witness ==
    \E r1 \in Issued, r2 \in Issued :
        /\ events[r1].view = "main"
        /\ events[r1].req = Batch(<<Req(1, adminAddPeer), Req(2, ethGetBalance)>>)
        /\ events[r1].written = events[r1].req
        /\ Len(answersOf(r1)) = 1 /\ answersOf(r1)[1].batch
        /\ \A i \in 1..2 : answersOf(r1)[1].elems[i].kind = "result"
        /\ events[r2].view = "popup"
        /\ Len(answersOf(r2)) = 1
        /\ answersOf(r2)[1].elems[1].kind = "accounts"
        /\ answersOf(r2)[1].elems[1].accts = Accounts

\* C14: the step in which a view is told of its socket's 'error', 'timeout' or 'end'
\* destroys the connection: its entry is gone from the registry and every call that was
\* pending on it has one more answer, the timeout error.
C14_SocketEventsTerminal ==
    [][\A v \in Views, ev \in {"error", "timeout", "end"} :
          (ev \notin signals[v] /\ ev \in signals'[v]) =>
              /\ ~sockets'[v].exists
              /\ \A r \in pendingOf(v) :
                    /\ Len(got'[r]) = Len(got[r]) + 1
                    /\ got'[r][Len(got'[r])].elems[1].kind = "METHOD_TIMEOUT"]_vars

\* C15: an ipcProvider-create for a view whose connection exists and is writable reports
\* true at once and changes nothing else: the registry, the sockets and the pending maps,
\* the requests, what was written and what every view was handed stay as they were.
C15_CreateIdempotent ==
    [][\A v \in Views :
          (Create(v) /\ sockets[v].exists /\ sockets[v].writable) =>
              /\ createRet'[v] = "true"
              /\ sockets' = sockets
              /\ UNCHANGED <<events, got, pushed, wire, templates, signals>>]_vars

\* C15 witness: a view with a call pending on its writable connection has sent
\* ipcProvider-create and was told true, the call still pending
C15_Witness ==
    \E v \in Views :
        /\ occurred = 1 /\ createRet[v] = "true"
        /\ sockets[v].exists /\ sockets[v].writable
        /\ pendingOf(v) # {}

C17_WritableBroadcast ==
    [][\A v \in Views :
          LET became == sockets'[v].exists /\ sockets'[v].writable
                        /\ ~(sockets[v].exists /\ sockets[v].writable)
              disconnected == \/ \E ev \in {"error", "timeout", "end"} :
                                    ev \notin signals[v] /\ ev \in signals'[v]
                              \/ Destroy(v) /\ sockets[v].exists
          IN  /\ became => "setWritable(true)" \in signals'[v]
              /\ disconnected =>
                    /\ "setWritable(false)" \in signals'[v]
                    /\ "setWritable(true)" \in signals'[v] => "setWritable(true)" \in signals[v]]_vars

\* C18: a 'state' event with STOPPING sends setWritable(false) to the owner of every
\* connection in the registry and leaves every such connection's socket disconnected.
C18_StoppingDisconnectsAll ==
    [][NodeStateChanged("stopping") =>
          \A v \in connections :
              /\ SetWritable(FALSE) \in ownerSent'[v]
              /\ ~isConnected'[v]]_vars

\* C19: a 'state' event with CONNECTED calls connect() on the socket of every connection
\* in the registry, sends setWritable(true) to the owner of each one whose connect()
\* succeeds, and leaves no rejection without a handler.
C19_ConnectedReconnectsAll ==
    [][NodeStateChanged("connected") =>
          /\ \A v \in connections :
                /\ reconnect'[v] # "none"
                /\ reconnect'[v] = "ok" => SetWritable(TRUE) \in ownerSent'[v]
          /\ unhandled' = unhandled]_vars

\* C20: a 'state' event with a state other than CONNECTED and STOPPING changes neither
\* the registry nor any socket, sends no message to any window and logs no error.
C20_OtherStatesIgnored ==
    [][\A state \in NodeStates \ {"connected", "stopping"} :
          NodeStateChanged(state) =>
              UNCHANGED <<connections, isConnected, ownerSent, reconnect, logged, unhandled,
                          mainVars>>]_vars

\* C20 witness: the node has reported STARTING or STOPPED while the registry holds a
\* connection with a connected socket and one with a destroyed socket
C20_Witness ==
    /\ nodeState \in NodeStates \ {"connected", "stopping"}
    /\ \E v, x \in connections : isConnected[v] /\ ~isConnected[x]

\* C21: a single eth_compileSolidity request that reaches checkRequests is never written
\* to the socket and never registered in a pending map, and its caller has exactly one
\* answer: one object with the request's id that holds the compiled contracts or the
\* compiler's errors, in the return slot of a writeSync and as a data push of a write.
C21_CompiledLocally ==
    \A r \in Issued :
        LET ev == events[r]
            q == ev.req.elems[1]
        IN  (~ev.req.batch /\ q.method = ethCompileSolidity /\ ~ev.thrown) =>
                /\ ev.written = NoPayload
                /\ ~ev.registered
                /\ r \notin wire[ev.view]
                /\ \A v \in Views : r \notin pendingOf(v)
                /\ strays(r) = {}
                /\ Len(answersOf(r)) = 1
                /\ ~answersOf(r)[1].batch
                /\ Len(answersOf(r)[1].elems) = 1
                /\ answersOf(r)[1].elems[1].id = q.id
                /\ answersOf(r)[1].elems[1].kind \in {"compiled", "compileError"}
                /\ answersOf(r)[1].chan = IF ev.sync THEN "return" ELSE "data"

\* C21 witness: one compilation was asked through writeSync and succeeded, another was
\* asked through write and failed, and both callers have their answer
C21_Witness ==
    \E r1 \in Issued, r2 \in Issued :
        /\ events[r1].req = Single(Req(1, ethCompileSolidity))
        /\ events[r2].req = Single(Req(1, ethCompileSolidity))
        /\ events[r1].sync /\ ~events[r2].sync
        /\ Len(answersOf(r1)) = 1 /\ answersOf(r1)[1].elems[1].kind = "compiled"
        /\ answersOf(r1)[1].chan = "return"
        /\ Len(answersOf(r2)) = 1 /\ answersOf(r2)[1].elems[1].kind = "compileError"
        /\ answersOf(r2)[1].chan = "data"

\* C22: everything a writeSync request is resolved with is a JSON-RPC response in the
\* return slot of its event and nothing of it is sent to the view as a data push;
\* everything a write request is resolved with is a data push.
C22_ChannelMatchesCall ==
    \A r \in Issued :
        /\ \A k \in 1..Len(got[r]) :
              /\ got[r][k].chan = IF events[r].sync THEN "return" ELSE "data"
              /\ got[r][k].elems[1].kind # "bool"
        /\ events[r].sync => strays(r) = {}

\* C23: when the popup of a single eth_sendTransaction reports approval with the gas g
\* and the request is written to the socket in that step, what is written is the request
\* as the view sent it with the gas of its first parameter set to g: same id, same
\* method, nothing else changed.
C23_ApprovedGasForwarded ==
    [][\A r \in Issued, g \in GasValues :
          (Decision(r, TRUE, g) /\ events[r].written = NoPayload /\ events'[r].written # NoPayload) =>
              /\ events'[r].written = [events[r].req EXCEPT !.elems[1].gas = g]
              /\ events'[r].written.elems[1].id = events[r].req.elems[1].id
              /\ events'[r].written.elems[1].method = ethSendTransaction
              /\ r \in wire'[events[r].view]]_vars

\* C23 witness: a transaction that came without gas was approved with the gas 21000 and
\* was written with it, and the daemon has the request on its socket
C23_Witness ==
    \E r \in Issued :
        /\ events[r].req = Single(Req(1, ethSendTransaction))
        /\ events[r].req.elems[1].gas = 0
        /\ events[r].callbacks = <<"approve">>
        /\ events[r].written # NoPayload /\ events[r].written.elems[1].gas = 21000
        /\ r \in wire[events[r].view]

\* C24: after every step each view has at most one connection that was constructed and
\* not destroyed, and it is the one the registry holds; a connection is constructed for a
\* view only when the registry has no entry for it and every earlier connection of the
\* view was destroyed; the entry of a view changes only by the destroy() of the
\* connection it holds, and a confirmation popup that still holds a destroyed connection
\* leaves the registry as it is when it reports.
C24_OneConnectionPerView ==
    [][/\ \A v \in Views :
            LET c == sockets[v]
                d == sockets'[v]
            IN  /\ d.constructed - d.destroyed = IF d.exists THEN 1 ELSE 0
                /\ d.exists => d.obj = d.constructed
                /\ ~d.exists => d.obj = 0
                /\ d.constructed > c.constructed =>
                      /\ ~c.exists
                      /\ c.destroyed = c.constructed
                      /\ d.constructed = c.constructed + 1
                /\ (c.exists /\ d.obj # c.obj) =>
                      /\ ~d.exists
                      /\ d.destroyed = c.destroyed + 1
       /\ \A r \in Issued :
            (events[r].stale /\ events'[r].decided /\ ~events[r].decided) => sockets' = sockets]_vars

\* C24 witness: a view's first connection was destroyed while its confirmation popup was
\* open, a later request constructed the second connection, and the popup then reported
\* approval: the registry holds the second connection
C24_Witness ==
    \E r \in Issued :
        LET c == sockets[events[r].view]
        IN  /\ events[r].stale /\ events[r].callbacks = <<"approve">>
            /\ c.exists /\ c.constructed = 2 /\ c.destroyed = 1 /\ c.obj = 2

\* C25: no id is pending in syncEvents and in asyncEvents of one connection at once;
\* every call found in a pending map is unanswered; and every call that was registered in
\* a map of a live connection and is no longer in it was taken out by its answer, so it
\* has exactly one: registering a second request under a pending id discards nothing.
C25_PendingMapsConsistent ==
    /\ \A v \in Views, i \in Ids :
          ~(sockets[v].syncEvents[i] # 0 /\ sockets[v].asyncEvents[i] # 0)
    /\ \A v \in Views : \A r \in pendingOf(v) : answersOf(r) = <<>>
    /\ \A r \in Issued :
          (events[r].registered /\ ~events[r].stale /\ r \notin pendingOf(events[r].view))
              => Len(answersOf(r)) = 1

\* C26: when the daemon answers a written batch whose call is pending, and no other call
\* of the connection is pending under an id of the batch, the step hands the batch's
\* caller one more answer, the array with one element per element written, whatever
\* order the daemon put them in, pushes nothing on the notification path and leaves no
\* entry of the batch in the maps.
C26_BatchAnyOrder ==
    [][\A v \in Views, r \in Issued :
          (DaemonReply(v, r) /\ events[r].written.batch /\ pendingOf(v) = {r}) =>
              LET n == Len(events[r].written.elems)
                  d == got'[r][Len(got'[r])]
              IN  /\ Len(got'[r]) = Len(got[r]) + 1
                  /\ SubSeq(got'[r], 1, Len(got[r])) = got[r]
                  /\ d.batch /\ Len(d.elems) = n
                  /\ {d.elems[i].id : i \in 1..n} = {events[r].written.elems[i].id : i \in 1..n}
                  /\ d.chan = IF events[r].sync THEN "return" ELSE "data"
                  /\ pushed' = pushed
                  /\ sockets'[v].syncEvents = NoEvents
                  /\ sockets'[v].asyncEvents = NoEvents]_vars

\* C26 witness: a batch registered under the id of its first element was answered with
\* the array turned round, and its caller has that array as its only answer
C26_Witness ==
    \E r \in Issued :
        /\ events[r].written.batch /\ events[r].registered
        /\ Len(answersOf(r)) = 1 /\ answersOf(r)[1].batch
        /\ answersOf(r)[1].elems[1].id # events[r].eventId
        /\ answersOf(r)[1].elems[2].id = events[r].eventId
        /\ answersOf(r)[1].elems[1].kind \in {"result", "accounts"}
        /\ pendingOf(events[r].view) = {}
        /\ strays(r) = {}

\* C27: the step in which the dechunker reports an error on a connection's data hands
\* every call pending on that connection, in the sync map and in the async map, one more
\* answer, a timeout error in the shape of the call's payload on the call's own channel,
\* and leaves both maps of the connection empty; the connection stays in the registry.
C27_FramingErrorTimesOut ==
    [][\A v \in Views :
          FramingError(v) =>
              /\ sockets'[v].exists
              /\ sockets'[v].syncEvents = NoEvents
              /\ sockets'[v].asyncEvents = NoEvents
              /\ \A r \in pendingOf(v) :
                    /\ Len(got'[r]) = Len(got[r]) + 1
                    /\ SubSeq(got'[r], 1, Len(got[r])) = got[r]
                    /\ LET d == got'[r][Len(got'[r])]
                       IN  /\ d.chan = IF events[r].sync THEN "return" ELSE "data"
                           /\ d.batch = events[r].payload.batch
                           /\ Len(d.elems) = Len(events[r].payload.elems)
                           /\ \A i \in 1..Len(d.elems) : d.elems[i].kind = "METHOD_TIMEOUT"
              /\ \A r \in RidSet \ pendingOf(v) : got'[r] = got[r]]_vars

\* C27 witness: the dechunker reported an error while a view had a call pending in each
\* map; both have the timeout error and the connection, still in the registry, has
\* empty maps
C27_Witness ==
    \E v \in Views, r1 \in Issued, r2 \in Issued :
        /\ sockets[v].exists /\ pendingOf(v) = {}
        /\ signals[v] \cap {"error", "timeout", "end"} = {}
        /\ occurred = 1
        /\ events[r1].view = v /\ events[r2].view = v
        /\ events[r1].sync /\ ~events[r2].sync
        /\ \A r \in {r1, r2} :
              /\ events[r].registered
              /\ got[r] # <<>>
              /\ got[r][Len(got[r])].elems[1].kind = "METHOD_TIMEOUT"

\* C28: a write or writeSync request that finds its view's socket not writable, after
\* sendRequest has created the connection or asked it to connect, is not written to the
\* socket, is not registered, and its caller is handed one timeout error in the shape of
\* the request with the request's ids, on the request's own channel.
C28_NotWritableTimesOut ==
    [][Len(events') = Len(events) + 1 =>
          LET r == Len(events')
              ev == events'[r]
              v == ev.view
          IN  ~sockets'[v].writable =>
                  /\ ev.written = NoPayload
                  /\ r \notin wire'[v]
                  /\ r \notin {x \in RidSet : \E i \in Ids :
                                  sockets'[v].syncEvents[i] = x \/ sockets'[v].asyncEvents[i] = x}
                  /\ Len(got'[r]) = 1
                  /\ got'[r][1].chan = IF ev.sync THEN "return" ELSE "data"
                  /\ got'[r][1].batch = ev.req.batch
                  /\ Len(got'[r][1].elems) = Len(ev.req.elems)
                  /\ \A i \in 1..Len(ev.req.elems) :
                        /\ got'[r][1].elems[i].kind = "METHOD_TIMEOUT"
                        /\ got'[r][1].elems[i].id = ev.req.elems[i].id]_vars

\* C29: when the popup of one request reports its decision, every other request that
\* waits at its own popup stays as it was, unanswered and unwritten; and a request that
\* still waits at its open popup is written to its connection's socket in the step in
\* which that popup reports approval, whatever other popups have reported before.
C29_GatesIndependent ==
    [][\A r \in Issued, approve \in BOOLEAN, g \in GasValues :
          Decision(r, approve, g) =>
              /\ \A x \in Issued \ {r} :
                    awaiting(x) =>
                        /\ got'[x] = got[x]
                        /\ events'[x].callbacks = <<>>
                        /\ events'[x].written = events[x].written
                        /\ events'[x].modal = events[x].modal
              /\ (/\ approve
                  /\ awaiting(r) /\ events[r].modal = "open" /\ ~events[r].stale
                  /\ sockets[events[r].view].exists /\ sockets[events[r].view].writable) =>
                     /\ events'[r].callbacks = <<"approve">>
                     /\ events'[r].written # NoPayload
                     /\ r \in wire'[events[r].view]]_vars

\* C30: bytes received on one Connection's socket are delivered only through that
\* Connection: whatever chunks arrive on the sockets of different connections, in any
\* order, the dechunker never holds chunks of two connections together, and every value
\* handed to a connection's data callback is made only of chunks from its own socket
C30_FramerPerConnection ==
    /\ \A i, j \in 1..Len(framerBuffer) : framerBuffer[i].from = framerBuffer[j].from
    /\ \A v \in Views : \A k \in 1..Len(framed[v]) :
          \A i \in 1..Len(framed[v][k]) : framed[v][k][i].from = v

\* C31: the method quoted in a synthesized 'method not allowed' or 'request timed out'
\* error is the method of the request it answers, whatever was rejected or timed out
\* before on any connection: for every single request, each such error handed to its
\* caller quotes that request's method.
C31_ErrorQuotesOwnMethod ==
    \A r \in Issued : \A k \in 1..Len(got[r]) :
        LET d == got[r][k]
        IN  (/\ ~events[r].req.batch
             /\ ~d.batch
             /\ d.elems[1].kind \in {"METHOD_DENIED", "METHOD_TIMEOUT"}) =>
                d.elems[1].msg = events[r].req.elems[1].method

====
